---- MODULE Spec2Model ----
(***************************************************************************)
(* Model of the vddk-builder upload server.                                *)
(*                                                                         *)
(*   pkg/server  (second package of src/pkg/registry/registry.go):         *)
(*       the /upload handler, authenticateRequest, resetBusy and the       *)
(*       package-level build slot (buildLock, isBusy);                     *)
(*   pkg/builder (src/pkg/builder/builder.go, lines 120-275):              *)
(*       BuildAndPushImage and its deferred cleanup.                       *)
(*                                                                         *)
(* Every POST /upload request is a process with a program counter `pc`     *)
(* for the handler and a program counter `pipe` for the goroutine the      *)
(* handler starts.  The lock-protected sections of the code are atomic     *)
(* steps; everything that touches the file system or starts an external    *)
(* tool is one step that ends in one of the outcomes the code tests for.   *)
(***************************************************************************)
EXTENDS Integers, FiniteSets, Sequences, TLC

\* Number of upload requests of one run.
NumRequests == 2

Requests == 1..NumRequests

\* Header values and tokens are strings, written as sequences of characters.
\* The scheme prefix authenticateRequest looks for.
BearerPrefix == << "B", "e", "a", "r", "e", "r", " " >>

\* Tokens: one the cluster lets list namespaces, one it does not, one for
\* which the permission query fails, one for which no client can be made.
GoodToken == << "g" >>
BadToken == << "b" >>
FlakyToken == << "f" >>
NoClientToken == << "n" >>

\* r.Header.Get("Authorization") of a request without the header.
NoHeader == << >>

\* Authorization headers an upload request can carry: none, and bearer
\* tokens the permission check grants or refuses.
Headers ==
    { NoHeader,
      BearerPrefix \o GoodToken,
      BearerPrefix \o BadToken }

\* cfg.ImageName and cfg.ImageRegistry (their defaults).
DefaultImageName == << "vddk" >>
ImageRegistry == "image-registry.openshift-image-registry.svc:5000"

\* Image names, written as sequences of their parts; << >> is the empty
\* string, the value of a missing "image" query parameter.
NoImage == << >>
UploadImages == { NoImage, << "foo" >> }

\* File names a multipart "file" part can carry (header.Filename).
Filenames == {"a.tar.gz", "b.tar.gz"}

\* Program counter values of the /upload handler.
HandlerPcs == {"idle", "auth", "form", "create", "copy", "reset", "done"}

\* Program counter values of the build goroutine.  "returned" is after
\* BuildAndPushImage returned and before resetBusy; "finished" is after it.
PipeRunning == {"mkTmp", "mkExtracted", "extract", "build", "push", "cleanup"}

PipePcs == {"none", "returned", "finished", "panicked"} \cup PipeRunning

\* Results of the pipeline, as logged by BuildAndPushImage.
Outcomes == {"", "mkdirFailed", "extractFailed", "buildFailed", "pushFailed", "success"}

VARIABLES
    requireAuth,   \* cfg.RequireAuth
    isBusy,        \* the package-level busy flag, protected by buildLock
    pc,            \* handler position of each request
    hdr,           \* Authorization header of each request
    resp,          \* HTTP status written by the handler (0: none yet)
    filePath,      \* the handler's filePath, shared with its goroutine ("" when
                   \* not set or when both have ended)
    staged,        \* how far the staging file of the request was written
    pipe,          \* build goroutine position of each request
    outcome,       \* result of the request's pipeline
    uploadDir,     \* files of cfg.UploadDir: "absent", "empty" (just created),
                   \* "partial" or "complete"
    tmpDir,        \* whether ./tmp exists
    extractedDir,  \* ./tmp/extracted: "absent", "empty" or "populated"
    acqBy,         \* history: times the request set isBusy to true
    relBy,         \* history: times resetBusy ran on behalf of the request
    crashed,       \* the process died of an unrecovered panic
    imageParam,    \* the "image" query parameter of an admitted request
    imageName,     \* the handler's imageName, passed to its goroutine
    authToken,     \* the handler's authToken, passed to its goroutine
    imageTag,      \* BuildAndPushImage's imageTag
    builtTag,      \* the tag buildImage was called with
    pushedTag,     \* the tag pushImage was called with
    pushCreds,     \* the --dest-creds argument pushImage gave to skopeo
    files,         \* paths created by extractTarGz, entry by entry
    archive,       \* the entries of the uploaded archive, when followed one by one
    queries,       \* history: permission queries made for the request
    chk            \* the /check-image request being served

\* What the handler and its goroutine keep of one request; it is gone when
\* both have ended.
locals == << imageParam, imageName, authToken, imageTag, builtTag, pushedTag, pushCreds >>

vars == << requireAuth, isBusy, pc, hdr, resp, filePath, staged, pipe, outcome,
           uploadDir, tmpDir, extractedDir, acqBy, relBy, crashed,
           imageParam, imageName, authToken, imageTag, builtTag, pushedTag,
           pushCreds, files, archive,
           queries, chk >>

----------------------------------------------------------------------------
(* authenticateRequest and the permission check it delegates to.           *)

\* k8spermissions.CreateClientWithToken(cfg.ImageRegistry, token): whether
\* it returns an error.
CreateClientFails(token) == token = NoClientToken

\* k8spermissions.CheckAccessWithToken(clientset, "list", "namespaces") for
\* the identity of `token`: the answer of the cluster.
CheckAccessWithToken(token) ==
    CASE token = GoodToken -> [allowed |-> TRUE,  err |-> FALSE]
      [] token = BadToken  -> [allowed |-> FALSE, err |-> FALSE]
      [] OTHER             -> [allowed |-> FALSE, err |-> TRUE]

HasPrefix_LengthOnly(s, prefix) == Len(s) >= Len(prefix)

\* strings.HasPrefix(s, prefix).
HasPrefix(s, prefix) ==
    /\ Len(s) >= Len(prefix)
    /\ SubSeq(s, 1, Len(prefix)) = prefix

\* strings.TrimPrefix(s, prefix).
TrimPrefix(s, prefix) ==
    IF HasPrefix(s, prefix) THEN SubSeq(s, Len(prefix) + 1, Len(s)) ELSE s

\* The token of an Authorization header, "" when it has no "Bearer " prefix.
BearerToken(h) == IF HasPrefix(h, BearerPrefix) THEN TrimPrefix(h, BearerPrefix) ELSE << >>

authenticateRequest_Enforced(reqAuth, h) ==
    LET token == BearerToken(h) IN
    IF token = << >>
    THEN [token |-> << >>, err |-> "Missing bearer token", queries |-> 0]
    ELSE LET res == CheckAccessWithToken(token) IN
         IF res.err \/ ~res.allowed
         THEN [token |-> << >>, err |-> "Insufficient permissions to list namespaces",
               queries |-> 1]
         ELSE [token |-> token, err |-> "", queries |-> 1]

\* authenticateRequest(cfg, r): the token to push with, or an error;
\* `queries` counts the permission queries it made.
authenticateRequest(reqAuth, h) ==
    IF ~reqAuth THEN [token |-> << >>, err |-> "", queries |-> 0]
    ELSE LET token == BearerToken(h) IN
         IF token = << >>
         THEN [token |-> << >>, err |-> "Missing bearer token", queries |-> 0]
         ELSE IF CreateClientFails(token)
         THEN [token |-> << >>, err |-> "Failed to create Kubernetes client", queries |-> 0]
         ELSE LET res == CheckAccessWithToken(token) IN
              IF res.err \/ ~res.allowed
              THEN [token |-> << >>, err |-> "Insufficient permissions to list namespaces",
                    queries |-> 1]
              ELSE [token |-> token, err |-> "", queries |-> 1]

----------------------------------------------------------------------------
(* Image names and tags.                                                   *)

NoToken == << >>
NoTag == << >>

\* The handler's imageName: the "image" query parameter, cfg.ImageName when
\* the parameter is empty.
EffectiveImageName(image) == IF image = NoImage THEN DefaultImageName ELSE image

ImageTag_Latest(name) ==
    << ImageRegistry, "/" >> \o (IF name = NoImage THEN DefaultImageName ELSE name)
        \o << ":", "latest" >>

\* imageTag := fmt.Sprintf("%s/%s", cfg.ImageRegistry, imageName), after the
\* builder's own defaulting of an empty name.
ImageTag(name) ==
    << ImageRegistry, "/" >> \o (IF name = NoImage THEN DefaultImageName ELSE name)

Tags == {NoTag} \cup { ImageTag(n) : n \in UploadImages }

\* pushImage without --dest-creds.
NoCreds == << >>

\* fmt.Sprintf(":%s", authToken): empty user name, the token as password.
DestCreds(token) == << ":" >> \o token

PushCreds_Always(token) == DestCreds(token)

\* The --dest-creds argument of pushImage, none for an empty token.
PushCreds(token) == IF token # NoToken THEN DestCreds(token) ELSE NoCreds

\* The handler's and the goroutine's variables of request r go out of scope.
ClearLocals(r) ==
    /\ imageParam' = [imageParam EXCEPT ![r] = NoImage]
    /\ imageName' = [imageName EXCEPT ![r] = NoImage]
    /\ authToken' = [authToken EXCEPT ![r] = NoToken]
    /\ imageTag' = [imageTag EXCEPT ![r] = NoTag]
    /\ builtTag' = [builtTag EXCEPT ![r] = NoTag]
    /\ pushedTag' = [pushedTag EXCEPT ![r] = NoTag]
    /\ pushCreds' = [pushCreds EXCEPT ![r] = NoCreds]

----------------------------------------------------------------------------
(* Paths and archives.                                                     *)

\* Paths are sequences of segments, relative to the working directory.
\* extractedDir := filepath.Join(filepath.Join(".", "tmp"), "extracted").
ExtractedPath == << "tmp", "extracted" >>

\* filepath.Clean of a relative path: a ".." segment removes the segment
\* before it, and stays when there is none to remove.
RECURSIVE Clean(_)
Clean(path) ==
    IF path = << >> THEN << >>
    ELSE LET front == Clean(SubSeq(path, 1, Len(path) - 1))
             last == path[Len(path)]
         IN  IF last = ".." /\ front # << >> /\ front[Len(front)] # ".."
             THEN SubSeq(front, 1, Len(front) - 1)
             ELSE Append(front, last)

Join_Contained(dest, name) == dest \o SelectSeq(name, LAMBDA seg : seg # "..")

\* filepath.Join(dest, hdr.Name).
Join(dest, name) == Clean(dest \o name)

\* path is dir or lies below it.
Under(path, dir) ==
    /\ Len(path) >= Len(dir)
    /\ SubSeq(path, 1, Len(dir)) = dir

\* os.RemoveAll(dir) on a set of paths.
RemoveAll(paths, dir) == { f \in paths : ~Under(f, dir) }

\* Archives: a directory and a file in it; a file named "../evil"; a file
\* named "../../evil" before an ordinary one; a file named "a/../b" after
\* the directory "a".
Archives ==
    { << [name |-> << "lib" >>, type |-> "dir"],
         [name |-> << "lib", "a.so" >>, type |-> "reg"] >>,
      << [name |-> << "..", "evil" >>, type |-> "reg"] >>,
      << [name |-> << "..", "..", "evil" >>, type |-> "reg"],
         [name |-> << "ok" >>, type |-> "reg"] >>,
      << [name |-> << "a" >>, type |-> "dir"],
         [name |-> << "a", "..", "b" >>, type |-> "reg"] >> }

\* No entry is followed one by one: extraction is seen as a whole.
NoArchive == << >>

\* Every path the extraction of one of the archives can create.
Targets ==
    UNION { { Join(ExtractedPath, a[i].name) : i \in DOMAIN a } : a \in Archives }

----------------------------------------------------------------------------
(* The registry probe and the values of a /check-image request.            *)

\* Authorization headers a /check-image request can carry: those of an
\* upload, and "bearer g", "Basic g", "Bearerg", "Bearer " and bearer tokens
\* for which the permission query or the client creation fails.
CheckHeaders ==
    Headers \cup
    { << "b", "e", "a", "r", "e", "r", " " >> \o GoodToken,
      << "B", "a", "s", "i", "c", " " >> \o GoodToken,
      << "B", "e", "a", "r", "e", "r" >> \o GoodToken,
      BearerPrefix,
      BearerPrefix \o FlakyToken,
      BearerPrefix \o NoClientToken }

\* Values of the "image" query parameter: none, "foo" and "foo:v2".
CheckImages == { NoImage, << "foo" >>, << "foo", ":", "v2" >> }

Methods == { "GET", "POST" }

\* What client.Do(req) returns: a transport error, or a response with a
\* status code.
RegistryAnswers ==
    { [err |-> TRUE, status |-> 0] } \cup
    { [err |-> FALSE, status |-> c] : c \in {200, 401, 404, 500} }

NoAnswer == [err |-> FALSE, status |-> 0]

\* fmt.Sprintf("https://%s/v2/%s/manifests/latest", registryURL, imageName).
ManifestURL(image, registryURL) ==
    << "https://", registryURL, "/v2/" >> \o image \o << "/manifests/", "latest" >>

NoURL == << >>

\* How the registry reads the path /v2/<name>/manifests/<reference>.
ManifestRequest(url) ==
    [host |-> url[2],
     name |-> SubSeq(url, 4, Len(url) - 2),
     reference |-> url[Len(url)]]

CheckImageExists_AbsentUnlessFound(answer) ==
    IF answer.err THEN [exists |-> FALSE, err |-> TRUE]
    ELSE [exists |-> answer.status = 200, err |-> FALSE]

\* CheckImageExists, from the answer of the registry on.
CheckImageExists(answer) ==
    IF answer.err THEN [exists |-> FALSE, err |-> TRUE]
    ELSE IF answer.status = 200 THEN [exists |-> TRUE, err |-> FALSE]
    ELSE IF answer.status = 404 THEN [exists |-> FALSE, err |-> FALSE]
    ELSE [exists |-> FALSE, err |-> TRUE]

\* The /check-image request being served, if any.
CheckStates ==
    [ pc : {"idle", "auth", "probe", "done"},
      method : Methods,
      image : CheckImages,
      hdr : CheckHeaders,
      busyAtStart : BOOLEAN,
      authed : BOOLEAN,
      token : {NoToken, GoodToken},
      queries : 0..1,
      url : {NoURL} \cup { ManifestURL(i, ImageRegistry) : i \in CheckImages },
      answer : RegistryAnswers \cup {NoAnswer},
      resp : {0, 200, 400, 401, 404, 405, 500} ]

NoCheck ==
    [ pc |-> "idle", method |-> "GET", image |-> NoImage, hdr |-> NoHeader,
      busyAtStart |-> FALSE, authed |-> FALSE, token |-> NoToken, queries |-> 0,
      url |-> NoURL, answer |-> NoAnswer, resp |-> 0 ]

----------------------------------------------------------------------------
(* The build slot.                                                         *)

resetBusy_Forgotten(r) ==
    /\ isBusy' = isBusy
    /\ relBy' = relBy

\* resetBusy(): clear the flag under the lock.
resetBusy(r) ==
    /\ isBusy' = FALSE
    /\ relBy' = [relBy EXCEPT ![r] = @ + 1]

TypeOK ==
    /\ requireAuth \in BOOLEAN
    /\ isBusy \in BOOLEAN
    /\ pc \in [Requests -> HandlerPcs]
    /\ hdr \in [Requests -> Headers]
    /\ resp \in [Requests -> {0, 200, 400, 401, 405, 500, 503}]
    /\ filePath \in [Requests -> Filenames \cup {""}]
    /\ staged \in [Requests -> {"none", "createFailed", "partial", "complete"}]
    /\ pipe \in [Requests -> PipePcs]
    /\ outcome \in [Requests -> Outcomes]
    /\ uploadDir \in [Filenames -> {"absent", "empty", "partial", "complete"}]
    /\ tmpDir \in BOOLEAN
    /\ extractedDir \in {"absent", "empty", "populated"}
    /\ acqBy \in [Requests -> 0..1]
    /\ relBy \in [Requests -> 0..1]
    /\ crashed \in BOOLEAN
    /\ imageParam \in [Requests -> UploadImages]
    /\ imageName \in [Requests -> UploadImages \cup {DefaultImageName}]
    /\ authToken \in [Requests -> {NoToken, GoodToken}]
    /\ imageTag \in [Requests -> Tags]
    /\ builtTag \in [Requests -> Tags]
    /\ pushedTag \in [Requests -> Tags]
    /\ pushCreds \in [Requests -> {NoCreds, DestCreds(GoodToken)}]
    /\ files \subseteq Targets
    /\ archive \in Archives \cup {NoArchive}
    /\ queries \in [Requests -> 0..1]
    /\ chk \in CheckStates

\* The state after StartServer created the upload directory and before any
\* request: the zero value of isBusy is false.
Init ==
    /\ requireAuth \in BOOLEAN
    /\ isBusy = FALSE
    /\ pc = [r \in Requests |-> "idle"]
    /\ hdr = [r \in Requests |-> NoHeader]
    /\ resp = [r \in Requests |-> 0]
    /\ filePath = [r \in Requests |-> ""]
    /\ staged = [r \in Requests |-> "none"]
    /\ pipe = [r \in Requests |-> "none"]
    /\ outcome = [r \in Requests |-> ""]
    /\ uploadDir = [f \in Filenames |-> "absent"]
    /\ tmpDir = FALSE
    /\ extractedDir = "absent"
    /\ acqBy = [r \in Requests |-> 0]
    /\ relBy = [r \in Requests |-> 0]
    /\ crashed = FALSE
    /\ imageParam = [r \in Requests |-> NoImage]
    /\ imageName = [r \in Requests |-> NoImage]
    /\ authToken = [r \in Requests |-> NoToken]
    /\ imageTag = [r \in Requests |-> NoTag]
    /\ builtTag = [r \in Requests |-> NoTag]
    /\ pushedTag = [r \in Requests |-> NoTag]
    /\ pushCreds = [r \in Requests |-> NoCreds]
    /\ files = {}
    /\ archive = NoArchive
    /\ queries = [r \in Requests |-> 0]
    /\ chk = NoCheck

\* Requests are numbered in the order in which their handlers start.
MayStart(r) ==
    /\ ~crashed
    /\ pc[r] = "idle"
    /\ \A q \in Requests : q < r => pc[q] # "idle"

fsVars == << uploadDir, tmpDir, extractedDir >>
pipeVars == << pipe, outcome >>

----------------------------------------------------------------------------
(* The /upload handler.                                                    *)

\* A request to /upload with a method other than POST.
UploadMethodNotAllowed(r) ==
    /\ MayStart(r)
    /\ pc' = [pc EXCEPT ![r] = "done"]
    /\ resp' = [resp EXCEPT ![r] = 405]
    /\ UNCHANGED << requireAuth, chk, files, archive, queries, locals, isBusy, hdr, filePath, staged, pipeVars, fsVars,
                    acqBy, relBy, crashed >>

UploadBusy_Resets(r) ==
    /\ MayStart(r)
    /\ isBusy
    /\ \E h \in Headers : hdr' = [hdr EXCEPT ![r] = h]
    /\ pc' = [pc EXCEPT ![r] = "done"]
    /\ resp' = [resp EXCEPT ![r] = 503]
    /\ resetBusy(r)
    /\ UNCHANGED << requireAuth, chk, files, archive, queries, locals, filePath, staged, pipeVars, fsVars,
                    acqBy, crashed >>

UploadBusy_Waits(r) ==
    /\ MayStart(r)
    /\ isBusy
    /\ \A q \in Requests : pipe[q] \notin PipeRunning
    /\ \E h \in Headers : hdr' = [hdr EXCEPT ![r] = h]
    /\ pc' = [pc EXCEPT ![r] = "done"]
    /\ resp' = [resp EXCEPT ![r] = 503]
    /\ UNCHANGED << requireAuth, chk, files, archive, queries, locals, isBusy, filePath,
                    staged, pipeVars, fsVars, acqBy, relBy, crashed >>

UploadBusy_Overwrites(r) ==
    /\ MayStart(r)
    /\ isBusy
    /\ \E h \in Headers : hdr' = [hdr EXCEPT ![r] = h]
    /\ \E f \in Filenames : uploadDir' = [uploadDir EXCEPT ![f] = "partial"]
    /\ pc' = [pc EXCEPT ![r] = "done"]
    /\ resp' = [resp EXCEPT ![r] = 503]
    /\ UNCHANGED << requireAuth, chk, files, archive, queries, locals, isBusy, filePath,
                    staged, pipeVars, tmpDir, extractedDir, acqBy, relBy, crashed >>

UploadBusy_Authenticates(r) ==
    /\ MayStart(r)
    /\ isBusy
    /\ \E h \in Headers :
          /\ hdr' = [hdr EXCEPT ![r] = h]
          /\ queries' = [queries EXCEPT ![r] = authenticateRequest(requireAuth, h).queries]
    /\ pc' = [pc EXCEPT ![r] = "done"]
    /\ resp' = [resp EXCEPT ![r] = 503]
    /\ UNCHANGED << requireAuth, chk, files, archive, locals, isBusy, filePath, staged, pipeVars, fsVars,
                    acqBy, relBy, crashed >>

\* POST /upload finds the slot taken: 503.
UploadBusy(r) ==
    /\ MayStart(r)
    /\ isBusy
    /\ \E h \in Headers : hdr' = [hdr EXCEPT ![r] = h]
    /\ pc' = [pc EXCEPT ![r] = "done"]
    /\ resp' = [resp EXCEPT ![r] = 503]
    /\ UNCHANGED << requireAuth, chk, files, archive, queries, locals, isBusy, filePath, staged, pipeVars, fsVars,
                    acqBy, relBy, crashed >>

UploadAcquire_NoCheck(r) ==
    /\ MayStart(r)
    /\ \E h \in Headers : hdr' = [hdr EXCEPT ![r] = h]
    /\ isBusy' = TRUE
    /\ acqBy' = [acqBy EXCEPT ![r] = @ + 1]
    /\ pc' = [pc EXCEPT ![r] = "auth"]
    /\ \E image \in UploadImages :
          /\ imageParam' = [imageParam EXCEPT ![r] = image]
          /\ imageName' = [imageName EXCEPT ![r] = EffectiveImageName(image)]
    /\ UNCHANGED << requireAuth, chk, files, archive, queries, authToken, imageTag, builtTag, pushedTag, pushCreds, resp, filePath, staged, pipeVars, fsVars,
                    relBy, crashed >>

\* POST /upload finds the slot free and takes it.
UploadAcquire(r) ==
    /\ MayStart(r)
    /\ ~isBusy
    /\ \E h \in Headers : hdr' = [hdr EXCEPT ![r] = h]
    /\ isBusy' = TRUE
    /\ acqBy' = [acqBy EXCEPT ![r] = @ + 1]
    /\ pc' = [pc EXCEPT ![r] = "auth"]
    /\ \E image \in UploadImages :
          /\ imageParam' = [imageParam EXCEPT ![r] = image]
          /\ imageName' = [imageName EXCEPT ![r] = EffectiveImageName(image)]
    /\ UNCHANGED << requireAuth, chk, files, archive, queries, authToken, imageTag, builtTag, pushedTag, pushCreds, resp, filePath, staged, pipeVars, fsVars,
                    relBy, crashed >>

\* authenticateRequest; 401 on error.
UploadAuthenticate(r) ==
    /\ ~crashed
    /\ pc[r] = "auth"
    /\ LET a == authenticateRequest(requireAuth, hdr[r]) IN
       /\ queries' = [queries EXCEPT ![r] = @ + a.queries]
       /\ authToken' = [authToken EXCEPT ![r] = a.token]
       /\ IF a.err # ""
          THEN /\ resp' = [resp EXCEPT ![r] = 401]
               /\ pc' = [pc EXCEPT ![r] = "reset"]
          ELSE /\ resp' = resp
               /\ pc' = [pc EXCEPT ![r] = "form"]
    /\ UNCHANGED << requireAuth, chk, files, archive, imageParam, imageName, imageTag, builtTag, pushedTag, pushCreds, isBusy, hdr, filePath, staged, pipeVars, fsVars,
                    acqBy, relBy, crashed >>

\* r.FormFile("file"); 400 when the part is missing.
UploadParseFile(r) ==
    /\ ~crashed
    /\ pc[r] = "form"
    /\ \/ /\ resp' = [resp EXCEPT ![r] = 400]
          /\ pc' = [pc EXCEPT ![r] = "reset"]
          /\ filePath' = filePath
       \/ \E f \in Filenames :
          /\ filePath' = [filePath EXCEPT ![r] = f]
          /\ pc' = [pc EXCEPT ![r] = "create"]
          /\ resp' = resp
    /\ UNCHANGED << requireAuth, chk, files, archive, queries, locals, isBusy, hdr, staged, pipeVars, fsVars,
                    acqBy, relBy, crashed >>

\* os.Create(filePath); 500 when it fails.
UploadCreateFile(r) ==
    /\ ~crashed
    /\ pc[r] = "create"
    /\ \/ /\ resp' = [resp EXCEPT ![r] = 500]
          /\ staged' = [staged EXCEPT ![r] = "createFailed"]
          /\ pc' = [pc EXCEPT ![r] = "reset"]
          /\ uploadDir' = uploadDir
       \/ /\ uploadDir' = [uploadDir EXCEPT ![filePath[r]] = "empty"]
          /\ pc' = [pc EXCEPT ![r] = "copy"]
          /\ UNCHANGED << resp, staged >>
    /\ UNCHANGED << requireAuth, chk, files, archive, queries, locals, isBusy, hdr, filePath, pipeVars, tmpDir,
                    extractedDir, acqBy, relBy, crashed >>

UploadCopyAndDispatch_Releases(r) ==
    /\ ~crashed
    /\ pc[r] = "copy"
    /\ \E written \in {"partial", "complete"} :
          /\ uploadDir' = [uploadDir EXCEPT ![filePath[r]] = written]
          /\ staged' = [staged EXCEPT ![r] = written]
    /\ resp' = [resp EXCEPT ![r] = 200]
    /\ pipe' = [pipe EXCEPT ![r] = "mkTmp"]
    /\ pc' = [pc EXCEPT ![r] = "done"]
    /\ resetBusy(r)
    /\ UNCHANGED << requireAuth, chk, files, archive, queries, locals, hdr, filePath, outcome, tmpDir,
                    extractedDir, acqBy, crashed >>

\* io.Copy(dst, file), whose result is dropped, the 200 response and the
\* go statement that starts the build.
UploadCopyAndDispatch(r) ==
    /\ ~crashed
    /\ pc[r] = "copy"
    /\ \E written \in {"partial", "complete"} :
          /\ uploadDir' = [uploadDir EXCEPT ![filePath[r]] = written]
          /\ staged' = [staged EXCEPT ![r] = written]
    /\ resp' = [resp EXCEPT ![r] = 200]
    /\ pipe' = [pipe EXCEPT ![r] = "mkTmp"]
    /\ pc' = [pc EXCEPT ![r] = "done"]
    /\ UNCHANGED << requireAuth, chk, files, archive, queries, locals, isBusy, hdr, filePath, outcome, tmpDir,
                    extractedDir, acqBy, relBy, crashed >>

\* The error paths: resetBusy() and return.
UploadResetAndReturn(r) ==
    /\ ~crashed
    /\ pc[r] = "reset"
    /\ resetBusy(r)
    /\ pc' = [pc EXCEPT ![r] = "done"]
    /\ filePath' = [filePath EXCEPT ![r] = ""]
    /\ ClearLocals(r)
    /\ UNCHANGED << requireAuth, chk, files, archive, queries, hdr, resp, staged, pipeVars, fsVars,
                    acqBy, crashed >>

----------------------------------------------------------------------------
(* BuildAndPushImage, run by the goroutine of an admitted request.         *)

\* os.MkdirAll(tmpDir): succeeds on an existing directory, may fail otherwise.
BuildMkdirTmp(r) ==
    /\ ~crashed
    /\ pipe[r] = "mkTmp"
    /\ \/ /\ tmpDir' = TRUE
          /\ pipe' = [pipe EXCEPT ![r] = "mkExtracted"]
          /\ outcome' = outcome
       \/ /\ ~tmpDir
          /\ tmpDir' = tmpDir
          /\ pipe' = [pipe EXCEPT ![r] = "returned"]
          /\ outcome' = [outcome EXCEPT ![r] = "mkdirFailed"]
    /\ UNCHANGED << requireAuth, chk, files, archive, queries, locals, isBusy, pc, hdr, resp, filePath, staged,
                    uploadDir, extractedDir, acqBy, relBy, crashed >>

\* os.MkdirAll(extractedDir); the deferred cleanup is registered after it.
BuildMkdirExtracted(r) ==
    /\ ~crashed
    /\ pipe[r] = "mkExtracted"
    /\ \/ /\ extractedDir' = IF extractedDir = "absent" THEN "empty" ELSE extractedDir
          /\ pipe' = [pipe EXCEPT ![r] = "extract"]
          /\ outcome' = outcome
       \/ /\ extractedDir = "absent"
          /\ extractedDir' = extractedDir
          /\ pipe' = [pipe EXCEPT ![r] = "returned"]
          /\ outcome' = [outcome EXCEPT ![r] = "mkdirFailed"]
    /\ UNCHANGED << requireAuth, chk, files, archive, queries, locals, isBusy, pc, hdr, resp, filePath, staged,
                    uploadDir, tmpDir, acqBy, relBy, crashed >>

\* extractTarGz(filePath, extractedDir): entries extracted before a failure
\* stay in the directory.
BuildExtract(r) ==
    /\ ~crashed
    /\ pipe[r] = "extract"
    /\ \E tree \in {extractedDir, "populated"} : extractedDir' = tree
    /\ \/ /\ pipe' = [pipe EXCEPT ![r] = "build"]
          /\ outcome' = outcome
       \/ /\ pipe' = [pipe EXCEPT ![r] = "cleanup"]
          /\ outcome' = [outcome EXCEPT ![r] = "extractFailed"]
    /\ UNCHANGED << requireAuth, chk, files, archive, queries, locals, isBusy, pc, hdr, resp, filePath, staged,
                    uploadDir, tmpDir, acqBy, relBy, crashed >>

\* extractTarGz(filePath, extractedDir) on the entries of `archive`: each
\* entry is created at filepath.Join(dest, hdr.Name); an I/O error ends the
\* loop with the entries before it already on disk.
BuildExtractArchive(r) ==
    /\ ~crashed
    /\ pipe[r] = "extract"
    /\ \E n \in 0..Len(archive) :
          LET created == { Join(ExtractedPath, archive[i].name) : i \in 1..n } IN
          /\ files' = files \cup created
          /\ extractedDir' = IF \E f \in created : Under(f, ExtractedPath)
                              THEN "populated" ELSE extractedDir
          /\ IF n = Len(archive)
             THEN /\ pipe' = [pipe EXCEPT ![r] = "build"]
                  /\ outcome' = outcome
             ELSE /\ pipe' = [pipe EXCEPT ![r] = "cleanup"]
                  /\ outcome' = [outcome EXCEPT ![r] = "extractFailed"]
    /\ UNCHANGED << requireAuth, chk, archive, queries, locals, isBusy, pc, hdr, resp,
                    filePath, staged, uploadDir, tmpDir, acqBy, relBy, crashed >>

\* The tag is computed, then buildImage(imageTag, extractedDir): podman build.
BuildImage(r) ==
    /\ ~crashed
    /\ pipe[r] = "build"
    /\ imageTag' = [imageTag EXCEPT ![r] = ImageTag(imageName[r])]
    /\ builtTag' = [builtTag EXCEPT ![r] = imageTag'[r]]
    /\ \/ /\ pipe' = [pipe EXCEPT ![r] = "push"]
          /\ outcome' = outcome
       \/ /\ pipe' = [pipe EXCEPT ![r] = "cleanup"]
          /\ outcome' = [outcome EXCEPT ![r] = "buildFailed"]
    /\ UNCHANGED << requireAuth, chk, files, archive, queries, imageParam, imageName, authToken, pushedTag, pushCreds, isBusy, pc, hdr, resp, filePath, staged,
                    fsVars, acqBy, relBy, crashed >>

BuildPush_Reports(r) ==
    /\ ~crashed
    /\ pipe[r] = "push"
    /\ pushedTag' = [pushedTag EXCEPT ![r] = imageTag[r]]
    /\ pushCreds' = [pushCreds EXCEPT ![r] = PushCreds(authToken[r])]
    /\ \E res \in {"success", "pushFailed"} :
          /\ outcome' = [outcome EXCEPT ![r] = res]
          /\ resp' = [resp EXCEPT ![r] = IF res = "success" THEN 200 ELSE 500]
    /\ pipe' = [pipe EXCEPT ![r] = "cleanup"]
    /\ UNCHANGED << requireAuth, chk, files, archive, queries, imageParam, imageName, authToken, imageTag,
                    builtTag, isBusy, pc, hdr, filePath, staged,
                    fsVars, acqBy, relBy, crashed >>

BuildPush_Releases(r) ==
    /\ ~crashed
    /\ pipe[r] = "push"
    /\ pushedTag' = [pushedTag EXCEPT ![r] = imageTag[r]]
    /\ pushCreds' = [pushCreds EXCEPT ![r] = PushCreds(authToken[r])]
    /\ \E res \in {"success", "pushFailed"} : outcome' = [outcome EXCEPT ![r] = res]
    /\ pipe' = [pipe EXCEPT ![r] = "cleanup"]
    /\ resetBusy(r)
    /\ UNCHANGED << requireAuth, chk, files, archive, queries, imageParam, imageName, authToken, imageTag,
                    builtTag, pc, hdr, resp, filePath, staged,
                    fsVars, acqBy, crashed >>

\* pushImage(imageTag, authToken): skopeo copy.
BuildPush(r) ==
    /\ ~crashed
    /\ pipe[r] = "push"
    /\ pushedTag' = [pushedTag EXCEPT ![r] = imageTag[r]]
    /\ pushCreds' = [pushCreds EXCEPT ![r] = PushCreds(authToken[r])]
    /\ \E res \in {"success", "pushFailed"} : outcome' = [outcome EXCEPT ![r] = res]
    /\ pipe' = [pipe EXCEPT ![r] = "cleanup"]
    /\ UNCHANGED << requireAuth, chk, files, archive, queries, imageParam, imageName, authToken, imageTag,
                    builtTag, isBusy, pc, hdr, resp, filePath, staged,
                    fsVars, acqBy, relBy, crashed >>

\* The deferred function: os.RemoveAll(extractedDir), os.Remove(filePath).
BuildCleanup(r) ==
    /\ ~crashed
    /\ pipe[r] = "cleanup"
    /\ extractedDir' = "absent"
    /\ files' = RemoveAll(files, ExtractedPath)
    /\ uploadDir' = [uploadDir EXCEPT ![filePath[r]] = "absent"]
    /\ pipe' = [pipe EXCEPT ![r] = "returned"]
    /\ UNCHANGED << requireAuth, chk, archive, queries, locals, isBusy, pc, hdr, resp, filePath, staged, outcome,
                    tmpDir, acqBy, relBy, crashed >>

BuildRelease_NoReset(r) ==
    /\ ~crashed
    /\ pipe[r] = "returned"
    /\ pipe' = [pipe EXCEPT ![r] = "finished"]
    /\ filePath' = [filePath EXCEPT ![r] = ""]
    /\ ClearLocals(r)
    /\ UNCHANGED << requireAuth, chk, files, archive, queries, isBusy, pc, hdr, resp, staged, outcome,
                    fsVars, acqBy, relBy, crashed >>

\* The goroutine's resetBusy() after BuildAndPushImage returned.
BuildRelease(r) ==
    /\ ~crashed
    /\ pipe[r] = "returned"
    /\ resetBusy(r)
    /\ pipe' = [pipe EXCEPT ![r] = "finished"]
    /\ filePath' = [filePath EXCEPT ![r] = ""]
    /\ ClearLocals(r)
    /\ UNCHANGED << requireAuth, chk, files, archive, queries, pc, hdr, resp, staged, outcome,
                    fsVars, acqBy, crashed >>

----------------------------------------------------------------------------
(* The /check-image handler.                                               *)

uploadVars ==
    << isBusy, pc, hdr, resp, filePath, staged, pipe, outcome, uploadDir, tmpDir,
       extractedDir, acqBy, relBy, imageParam, imageName, authToken, imageTag,
       builtTag, pushedTag, pushCreds, files, archive, queries >>

\* The request as the handler finds it, after the method and the "image"
\* parameter were looked at.
CheckArrived(method, image, h) ==
    [ NoCheck EXCEPT
        !.method = method, !.image = image, !.hdr = h, !.busyAtStart = isBusy,
        !.pc = IF method # "GET" \/ image = NoImage THEN "done" ELSE "auth",
        !.resp = IF method # "GET" THEN 405
                 ELSE IF image = NoImage THEN 400 ELSE 0 ]

CheckStart_BusyRejects ==
    /\ ~crashed
    /\ chk.pc \in {"idle", "done"}
    /\ \E method \in Methods, image \in CheckImages, h \in CheckHeaders :
          chk' = IF isBusy
                 THEN [ CheckArrived(method, image, h) EXCEPT !.pc = "done", !.resp = 503 ]
                 ELSE CheckArrived(method, image, h)
    /\ UNCHANGED << requireAuth, crashed, uploadVars >>

\* A request to /check-image arrives, once the one before it was answered:
\* 405 unless it is a GET, 400 when the "image" parameter is empty.
CheckStart ==
    /\ ~crashed
    /\ chk.pc \in {"idle", "done"}
    /\ \E method \in Methods, image \in CheckImages, h \in CheckHeaders :
          chk' = CheckArrived(method, image, h)
    /\ UNCHANGED << requireAuth, crashed, uploadVars >>

\* authenticateRequest; 401 on error.
CheckAuthenticate ==
    /\ ~crashed
    /\ chk.pc = "auth"
    /\ LET a == authenticateRequest(requireAuth, chk.hdr) IN
       chk' = IF a.err # ""
              THEN [ chk EXCEPT !.queries = a.queries, !.resp = 401, !.pc = "done" ]
              ELSE [ chk EXCEPT !.queries = a.queries, !.token = a.token,
                                !.authed = TRUE, !.pc = "probe" ]
    /\ UNCHANGED << requireAuth, crashed, uploadVars >>

\* registry.CheckImageExists(imageName, cfg.ImageRegistry, authToken) and the
\* response made of its result.
CheckProbe ==
    /\ ~crashed
    /\ chk.pc = "probe"
    /\ \E answer \in RegistryAnswers :
          LET res == CheckImageExists(answer) IN
          chk' = [ chk EXCEPT
                     !.url = ManifestURL(chk.image, ImageRegistry),
                     !.answer = answer,
                     !.resp = IF res.err THEN 500
                              ELSE IF res.exists THEN 200 ELSE 404,
                     !.pc = "done" ]
    /\ UNCHANGED << requireAuth, crashed, uploadVars >>

CheckStep ==
    \/ CheckStart
    \/ CheckAuthenticate
    \/ CheckProbe

----------------------------------------------------------------------------
(* Specifications.                                                         *)

HandlerStep(r) ==
    \/ UploadAuthenticate(r)
    \/ UploadParseFile(r)
    \/ UploadCreateFile(r)
    \/ UploadCopyAndDispatch(r)
    \/ UploadResetAndReturn(r)

PipelineStep(r) ==
    \/ BuildMkdirTmp(r)
    \/ BuildMkdirExtracted(r)
    \/ BuildExtract(r)
    \/ BuildImage(r)
    \/ BuildPush(r)
    \/ BuildCleanup(r)
    \/ BuildRelease(r)

Next ==
    \E r \in Requests :
        \/ UploadMethodNotAllowed(r)
        \/ UploadBusy(r)
        \/ UploadAcquire(r)
        \/ HandlerStep(r)
        \/ PipelineStep(r)

\* The server without panics.
Spec == Init /\ [][Next]_vars

\* A panic in the handler of a request that holds the slot: the deferred
\* Close calls run, net/http recovers the panic and closes the connection.
\* No deferred call of the handler releases the slot.
HandlerPanic(r) ==
    /\ ~crashed
    /\ pc[r] \in {"auth", "form", "create", "copy", "reset"}
    /\ pc' = [pc EXCEPT ![r] = "done"]
    /\ filePath' = [filePath EXCEPT ![r] = ""]
    /\ ClearLocals(r)
    /\ UNCHANGED << requireAuth, chk, files, archive, queries, isBusy, hdr, resp, staged, pipeVars,
                    fsVars, acqBy, relBy, crashed >>

\* A panic in the build goroutine: the deferred cleanup runs if it was
\* registered, then the process dies, as nothing recovers the panic.
PipelinePanic(r) ==
    /\ ~crashed
    /\ pipe[r] \in {"mkTmp", "mkExtracted", "extract", "build", "push"}
    /\ IF pipe[r] \in {"extract", "build", "push"}
       THEN /\ extractedDir' = "absent"
            /\ files' = RemoveAll(files, ExtractedPath)
            /\ uploadDir' = [uploadDir EXCEPT ![filePath[r]] = "absent"]
       ELSE UNCHANGED << extractedDir, files, uploadDir >>
    /\ pipe' = [pipe EXCEPT ![r] = "panicked"]
    /\ crashed' = TRUE
    /\ UNCHANGED << requireAuth, chk, archive, queries, locals, isBusy, pc, hdr, resp, filePath, staged, outcome,
                    tmpDir, acqBy, relBy >>

NextPanic ==
    \/ Next
    \/ \E r \in Requests : HandlerPanic(r) \/ PipelinePanic(r)

\* The server with panics in the handler and in the build goroutine.
SpecPanic == Init /\ [][NextPanic]_vars

\* One upload, and /check-image requests one after the other beside it.
NextCheck ==
    \/ UploadAcquire(1)
    \/ HandlerStep(1)
    \/ PipelineStep(1)
    \/ CheckStep

CheckSpec == Init /\ [][NextCheck]_vars

\* The deferred function when the removals fail: the errors of
\* os.RemoveAll and os.Remove are logged and nothing else is done.
BuildCleanupFails(r) ==
    /\ ~crashed
    /\ pipe[r] = "cleanup"
    /\ \E treeGone, fileGone \in BOOLEAN :
          /\ ~(treeGone /\ fileGone)
          /\ extractedDir' = IF treeGone THEN "absent" ELSE extractedDir
          /\ files' = IF treeGone THEN RemoveAll(files, ExtractedPath) ELSE files
          /\ uploadDir' = IF fileGone THEN [uploadDir EXCEPT ![filePath[r]] = "absent"]
                           ELSE uploadDir
    /\ pipe' = [pipe EXCEPT ![r] = "returned"]
    /\ UNCHANGED << requireAuth, chk, archive, queries, locals, isBusy, pc, hdr, resp,
                    filePath, staged, outcome, tmpDir, acqBy, relBy, crashed >>

NextFaults ==
    \/ Next
    \/ \E r \in Requests : BuildCleanupFails(r)

\* The server when the removals of the cleanup can fail.
SpecFaults == Init /\ [][NextFaults]_vars

\* The client uploads one of the archives.
InitArchive ==
    /\ archive \in Archives
    /\ requireAuth \in BOOLEAN
    /\ isBusy = FALSE
    /\ pc = [r \in Requests |-> "idle"]
    /\ hdr = [r \in Requests |-> NoHeader]
    /\ resp = [r \in Requests |-> 0]
    /\ filePath = [r \in Requests |-> ""]
    /\ staged = [r \in Requests |-> "none"]
    /\ pipe = [r \in Requests |-> "none"]
    /\ outcome = [r \in Requests |-> ""]
    /\ uploadDir = [f \in Filenames |-> "absent"]
    /\ tmpDir = FALSE
    /\ extractedDir = "absent"
    /\ acqBy = [r \in Requests |-> 0]
    /\ relBy = [r \in Requests |-> 0]
    /\ crashed = FALSE
    /\ imageParam = [r \in Requests |-> NoImage]
    /\ imageName = [r \in Requests |-> NoImage]
    /\ authToken = [r \in Requests |-> NoToken]
    /\ imageTag = [r \in Requests |-> NoTag]
    /\ builtTag = [r \in Requests |-> NoTag]
    /\ pushedTag = [r \in Requests |-> NoTag]
    /\ pushCreds = [r \in Requests |-> NoCreds]
    /\ files = {}
    /\ queries = [r \in Requests |-> 0]
    /\ chk = NoCheck

\* One upload whose extraction is followed entry by entry.
NextArchive ==
    \/ UploadAcquire(1)
    \/ HandlerStep(1)
    \/ BuildMkdirTmp(1)
    \/ BuildMkdirExtracted(1)
    \/ BuildExtractArchive(1)
    \/ BuildImage(1)
    \/ BuildPush(1)
    \/ BuildCleanup(1)
    \/ BuildRelease(1)

ArchiveSpec == InitArchive /\ [][NextArchive]_vars

\* A step of a handler past the admission check or of a build goroutine.
Progress == \E r \in Requests : HandlerStep(r) \/ PipelineStep(r)

\* The Go scheduler does not leave every runnable goroutine waiting for
\* ever, and every external step (extract, build, push) terminates.
Fairness == WF_vars(Progress)

FairSpec == Spec /\ Fairness

----------------------------------------------------------------------------
(* Derived notions.                                                        *)

RECURSIVE SumOver(_, _)
SumOver(f, S) ==
    IF S = {} THEN 0
    ELSE LET x == CHOOSE y \in S : TRUE IN f[x] + SumOver(f, S \ {x})

\* Times isBusy was set to true, and times resetBusy ran.
Acquires == SumOver(acqBy, Requests)
Releases == SumOver(relBy, Requests)

\* The request has set isBusy to true and resetBusy has not run for it.
HoldsSlot(r) == acqBy[r] > relBy[r]
Holders == {r \in Requests : HoldsSlot(r)}

\* The goroutine of the request is between the go statement and its resetBusy.
InGoroutine(r) == pipe[r] \in PipeRunning \cup {"returned"}

\* BuildAndPushImage is between its start and its return.
Building == {r \in Requests : pipe[r] \in PipeRunning}

\* Nothing is in progress: every handler returned, every goroutine ended.
Quiescent ==
    \A r \in Requests : pc[r] \in {"idle", "done"} /\ pipe[r] \in {"none", "finished"}

----------------------------------------------------------------------------
(* Claims.                                                                 *)

\* C1: at most one BuildAndPushImage is between its start and its return at
\* any instant; a POST /upload that arrives while one is running is answered
\* 503 in the admission path, and a request answered 503 never stages a
\* file and never runs a pipeline step.
C1_SingleFlight ==
    /\ [](/\ Cardinality(Building) <= 1
          /\ \A r \in Requests :
                resp[r] = 503 =>
                    /\ pc[r] = "done"
                    /\ pipe[r] = "none" /\ outcome[r] = ""
                    /\ filePath[r] = "" /\ staged[r] = "none")
    /\ [][\A r \in Requests :
            (pc[r] = "idle" /\ pc'[r] # "idle" /\ resp'[r] # 405 /\ Building # {})
                => (resp'[r] = 503 /\ pc'[r] = "done" /\ UNCHANGED << pipe, fsVars >>)]_vars

\* C1 witness: a pipeline is running and another request got its 503.
C1_Witness ==
    \E q, r \in Requests : q # r /\ pipe[q] = "build" /\ pc[r] = "done" /\ resp[r] = 503

\* C2 (as claimed): with RequireAuth, no request has set the busy flag while
\* its authorization decision is pending, and a request denied by the
\* authorization gate has never set it.
C2_AuthBeforeSlot ==
    requireAuth =>
        \A r \in Requests :
            /\ pc[r] = "auth" => acqBy[r] = 0
            /\ resp[r] = 401 => acqBy[r] = 0

\* C3 (as claimed): with RequireAuth, a POST /upload whose credentials the
\* gate refuses is answered 401 whatever the state of the slot.
C3_DenialIndependentOfSlot ==
    requireAuth =>
        \A r \in Requests :
            (pc[r] = "done" /\ resp[r] \notin {0, 405}
                /\ authenticateRequest(TRUE, hdr[r]).err # "")
            => resp[r] = 401

\* C4: resetBusy never ran more often than isBusy was set, and once every
\* handler and every build has ended the two counts are equal, whatever
\* stage the builds failed at.
C4_ReleaseMatchesAcquire ==
    /\ Releases <= Acquires
    /\ \A r \in Requests : relBy[r] <= acqBy[r]
    /\ Quiescent => Releases = Acquires

\* C4 witness: two builds have failed at different stages and all is at rest.
C4_Witness ==
    /\ Quiescent
    /\ Acquires >= 2
    /\ \E q, r \in Requests :
          /\ outcome[q] \in {"extractFailed", "mkdirFailed"}
          /\ outcome[r] \in {"buildFailed", "pushFailed"}

\* C5 (as claimed): when BuildAndPushImage has returned, on whatever path,
\* tmp/extracted and the uploaded archive do not exist.
C5_CleanupOnEveryExit ==
    \A r \in Requests :
        pipe[r] = "returned" =>
            /\ extractedDir = "absent"
            /\ uploadDir[filePath[r]] = "absent"

\* C6: under fair scheduling and terminating external steps, whenever isBusy
\* is true it is eventually false again, and whenever it is false the next
\* POST /upload can take the slot.
C6_SlotEventuallyReleased ==
    /\ isBusy ~> ~isBusy
    /\ [](\A r \in Requests : (~isBusy /\ MayStart(r)) => ENABLED UploadAcquire(r))

\* C6 witness: a build released the slot and a later request took it.
C6_Witness ==
    \E q, r \in Requests :
        q # r /\ pipe[q] = "finished" /\ relBy[q] = 1 /\ acqBy[r] = 1 /\ isBusy

\* A pipeline exists for the request or may still be dispatched for it: it
\* holds the slot and its handler has not turned it down.
PipelinePending(r) ==
    \/ InGoroutine(r)
    \/ /\ pc[r] \in {"auth", "form", "create", "copy"}
       /\ ~(pc[r] = "auth" /\ authenticateRequest(requireAuth, hdr[r]).err # "")

C8_ReleasedOnEveryExit ==
    \A r \in Requests :
        (acqBy[r] = 1 /\ pc[r] = "done" /\ pipe[r] \in {"none", "finished", "panicked"})
            => relBy[r] = 1

\* C9: a POST /upload that ended with 401, 400 or 500 has no pipeline and
\* has released what it acquired; at its return the slot is free.
C9_AdmissionErrorReleases ==
    /\ [](\A r \in Requests :
            (pc[r] = "done" /\ resp[r] \in {400, 401, 500}) =>
                /\ pipe[r] = "none" /\ outcome[r] = ""
                /\ relBy[r] = acqBy[r])
    /\ [][\A r \in Requests :
            (pc[r] # "done" /\ pc'[r] = "done" /\ resp'[r] \in {400, 401, 500})
                => ~isBusy']_vars

\* C9 witness: after a 500 the next request took the slot.
C9_Witness ==
    \E q, r \in Requests :
        q # r /\ pc[q] = "done" /\ resp[q] = 500 /\ acqBy[q] = 1 /\ pc[r] = "form"

\* C10 (as claimed): 200 is answered and the build dispatched only when the
\* staging file was written completely; a failed create or a failed copy
\* ends in 500 without a build.
C10_DispatchOnlyWhenWritten ==
    \A r \in Requests :
        /\ resp[r] = 200 => staged[r] = "complete"
        /\ pipe[r] # "none" => staged[r] = "complete"
        /\ staged[r] \in {"createFailed", "partial"} => (resp[r] = 500 /\ pipe[r] = "none")

----------------------------------------------------------------------------
(* The response to an upload, authorization, tags and the registry probe.  *)

\* C11: an admitted upload is answered 200 by the step that dispatches its
\* pipeline, the handler is over from then on, and no step of the pipeline,
\* whatever its outcome, changes the response.
C11_ResponseBeforePipeline ==
    /\ [](\A r \in Requests :
            (pipe[r] # "none" \/ outcome[r] # "") => (resp[r] = 200 /\ pc[r] = "done"))
    /\ [][\A r \in Requests :
            /\ (pipe[r] = "none" /\ pipe'[r] # "none") =>
                   (pipe'[r] = "mkTmp" /\ outcome'[r] = "" /\ resp'[r] = 200)
            /\ pipe[r] # "none" => resp'[r] = resp[r]]_vars

C11_Witness ==
    \E r, q \in Requests :
        /\ pipe[r] = "finished" /\ outcome[r] = "pushFailed" /\ resp[r] = 200
        /\ pipe[q] = "finished" /\ outcome[q] = "extractFailed" /\ resp[q] = 200

\* C12: with RequireAuth=false no request is answered 401, no permission
\* query is made and the token is empty, on /upload and on /check-image,
\* whatever Authorization header the request carries.
C12_AuthDisabledPermitsAll ==
    ~requireAuth =>
        /\ chk.resp # 401 /\ chk.queries = 0 /\ chk.token = << >>
        /\ chk.pc = "probe" => chk.authed
        /\ \A r \in Requests :
              resp[r] # 401 /\ queries[r] = 0 /\ authToken[r] = << >>

C12_Witness ==
    /\ ~requireAuth
    /\ chk.pc = "done" /\ chk.hdr = << >> /\ chk.resp = 200
    /\ hdr[1] = << >> /\ pipe[1] = "push"

C14_TagOfBuildAndPush ==
    \A r \in Requests :
        LET effective == IF imageParam[r] # << >> THEN imageParam[r] ELSE DefaultImageName
            expected == << ImageRegistry, "/" >> \o effective
        IN  /\ pipe[r] = "push" => builtTag[r] = expected
            /\ (pipe[r] = "cleanup" /\ outcome[r] \in {"buildFailed"}) =>
                  builtTag[r] = expected
            /\ (pipe[r] = "cleanup" /\ outcome[r] \in {"success", "pushFailed"}) =>
                  (builtTag[r] = expected /\ pushedTag[r] = expected)
            /\ builtTag[r] # << >> => builtTag[r] = expected
            /\ pushedTag[r] # << >> => pushedTag[r] = builtTag[r]

C14_Witness ==
    \E r, q \in Requests :
        /\ imageParam[r] = << "foo" >>
        /\ pushedTag[r] = << ImageRegistry, "/", "foo" >>
        /\ pipe[q] = "finished"
        /\ hdr[q] # hdr[r]

\* C15: the probe asks for the manifest of the repository named by the part
\* of the "image" parameter before ":", at the tag after the ":", or at
\* "latest" when the parameter has no ":".
C15_ProbeSplitsAtColon ==
    chk.url # << >> =>
        LET image == chk.image
            colons == { i \in 1..Len(image) : image[i] = ":" }
            req == ManifestRequest(chk.url)
        IN  IF colons = {}
            THEN req.name = image /\ req.reference = "latest"
            ELSE LET i == CHOOSE j \in colons : \A k \in colons : j <= k IN
                 /\ req.name = SubSeq(image, 1, i - 1)
                 /\ << req.reference >> = SubSeq(image, i + 1, Len(image))

\* C16: no step of a /check-image request changes the busy flag or counts
\* as an acquisition or a release of the slot, and no /check-image request
\* is answered 503, a build in flight or not.
C16_CheckImageBypassesSlot ==
    /\ [](chk.resp # 503)
    /\ [][chk' # chk => UNCHANGED << isBusy, acqBy, relBy, pc, pipe >>]_vars

C16_Witness ==
    /\ chk.pc = "done" /\ chk.busyAtStart /\ chk.resp = 200
    /\ isBusy /\ pipe[1] = "build"

\* C17: an answered GET /check-image has status 400 when "image" is
\* missing, else 401 when authorization failed, else 200, 404 or 500 for a
\* manifest found, not found, or a probe that failed; the registry is asked
\* only after authorization succeeded.
C17_CheckImageStatuses ==
    /\ (chk.url # << >> \/ chk.answer # NoAnswer) => chk.authed
    /\ chk.authed => authenticateRequest(requireAuth, chk.hdr).err = ""
    /\ (chk.pc = "done" /\ chk.method = "GET") =>
          chk.resp =
             IF chk.image = << >> THEN 400
             ELSE IF authenticateRequest(requireAuth, chk.hdr).err # "" THEN 401
             ELSE IF chk.answer.err THEN 500
             ELSE IF chk.answer.status = 200 THEN 200
             ELSE IF chk.answer.status = 404 THEN 404
             ELSE 500

C17_Witness ==
    /\ chk.pc = "done" /\ chk.method = "GET"
    /\ chk.answer = [err |-> FALSE, status |-> 401]
    /\ chk.resp = 500

----------------------------------------------------------------------------
(* The order of the stages, and the slot around them.                      *)

\* C18: the stages of one pipeline follow each other in the order staging,
\* extraction, build, push, cleanup, done; the build only follows a
\* successful extraction and the push a successful build, each at most
\* once; a stage that fails is followed by the cleanup.
C18_StagesInOrder ==
    [][\A r \in Requests :
         LET rank == [ s \in PipePcs |->
                         CASE s = "none" -> 0
                           [] s = "mkTmp" -> 1
                           [] s = "mkExtracted" -> 2
                           [] s = "extract" -> 3
                           [] s = "build" -> 4
                           [] s = "push" -> 5
                           [] s = "cleanup" -> 6
                           [] s = "returned" -> 7
                           [] OTHER -> 8 ]
         IN  pipe'[r] # pipe[r] =>
               /\ rank[pipe'[r]] > rank[pipe[r]]
               /\ pipe'[r] = "build" => (pipe[r] = "extract" /\ outcome'[r] = "")
               /\ pipe'[r] = "push" => (pipe[r] = "build" /\ outcome'[r] = "")
               /\ (outcome'[r] # outcome[r] /\ outcome'[r] # "success") =>
                     pipe'[r] = "cleanup"
               /\ pipe'[r] = "returned" => pipe[r] = "cleanup"]_vars

\* C19: while the cleanup of a pipeline is still to come or running, the
\* slot is held by that pipeline's request and no other request is past
\* admission or in a pipeline; the goroutine releases the slot only once
\* BuildAndPushImage, its cleanup included, has returned.
C19_ReleaseAfterCleanup ==
    /\ [](\A r \in Requests :
            pipe[r] \in PipeRunning \cup {"cleanup"} =>
               /\ isBusy
               /\ acqBy[r] > relBy[r]
               /\ \A q \in Requests \ {r} :
                     /\ pc[q] \in {"idle", "done"}
                     /\ pipe[q] \in {"none", "finished"})
    /\ [][\A r \in Requests :
            (relBy'[r] > relBy[r] /\ pipe[r] # "none") =>
               (pipe[r] = "returned" /\ pipe'[r] = "finished")]_vars

C19_Witness ==
    \E r, q \in Requests :
        /\ pipe[r] = "cleanup" /\ extractedDir = "populated"
        /\ pipe[q] = "finished" /\ outcome[q] = "success"

\* C20: the step that answers a POST /upload with 503 is taken with the
\* busy flag set and leaves it set; it changes no file, starts no pipeline,
\* makes no permission query and counts neither as an acquisition nor as a
\* release.
C20_BusyRejectionHasNoEffect ==
    /\ [](\A r \in Requests :
            resp[r] = 503 =>
               /\ queries[r] = 0 /\ acqBy[r] = 0 /\ relBy[r] = 0
               /\ pipe[r] = "none" /\ staged[r] = "none" /\ filePath[r] = "")
    /\ [][\A r \in Requests :
            (resp'[r] = 503 /\ resp[r] # 503) =>
               /\ isBusy /\ isBusy'
               /\ UNCHANGED << uploadDir, tmpDir, extractedDir, pipe, outcome, queries,
                               acqBy, relBy, filePath, staged >>]_vars

C20_Witness ==
    \E r, q \in Requests :
        /\ requireAuth
        /\ resp[r] = 503 /\ hdr[r] = << "B", "e", "a", "r", "e", "r", " ", "g" >>
        /\ pipe[q] = "extract" /\ isBusy

----------------------------------------------------------------------------
(* The lock, the push credential and the files of a build.                 *)

\* C21: no handler or goroutine keeps the lock between two of its steps: a
\* request that arrives is admitted or answered 503 at once, whatever the
\* other requests are doing, and a release is never kept waiting; the step
\* that answers 503 leaves the running build where it is.
C21_AdmissionNeverBlocks ==
    /\ [](\A r \in Requests :
            /\ (MayStart(r) /\ isBusy) => ENABLED UploadBusy(r)
            /\ (MayStart(r) /\ ~isBusy) => ENABLED UploadAcquire(r)
            /\ (pc[r] = "reset" /\ ~crashed) => ENABLED UploadResetAndReturn(r)
            /\ (pipe[r] = "returned" /\ ~crashed) => ENABLED BuildRelease(r))
    /\ [][\A q \in Requests :
            (resp'[q] = 503 /\ resp[q] # 503) =>
               \A r \in Requests \ {q} : pipe'[r] = pipe[r] /\ pc'[r] = pc[r]]_vars

C21_Witness ==
    \E r, q \in Requests :
        /\ pipe[r] = "push" /\ outcome[r] = ""
        /\ resp[q] = 503 /\ pc[q] = "done"

\* C22: the push is given a destination credential exactly when the token
\* the gate returned for the request is not empty, and the credential is
\* then an empty user name, ":", and that token; with RequireAuth=false the
\* push never has a credential, whatever header the request carried.
C22_PushCredential ==
    \A r \in Requests :
        pushedTag[r] # << >> =>
            LET h == hdr[r]
                gate == IF requireAuth /\ Len(h) > 7
                           /\ SubSeq(h, 1, 7) = << "B", "e", "a", "r", "e", "r", " " >>
                        THEN SubSeq(h, 8, Len(h)) ELSE << >>
            IN  /\ authToken[r] = gate
                /\ (pushCreds[r] # << >>) <=> (gate # << >>)
                /\ pushCreds[r] # << >> =>
                      (pushCreds[r][1] = ":" /\ Tail(pushCreds[r]) = gate)
                /\ ~requireAuth => pushCreds[r] = << >>

C22_Witness ==
    \E r, q \in Requests :
        /\ pushedTag[r] # << >> /\ pushCreds[r] = << ":", "g" >>
        /\ resp[q] = 401

\* C23: when a pipeline starts to extract, tmp/extracted exists and holds
\* nothing of an earlier build.
C23_ExtractionStartsEmpty ==
    \A r \in Requests : pipe[r] = "extract" => extractedDir = "empty"

\* C24: a file of the upload directory is created or written only by the
\* handler that holds the slot, and removed only by the cleanup of the
\* holder's pipeline; while a pipeline is before its cleanup no step changes
\* the archive it reads, and the step that answers 503 changes no file.
C24_UploadDirOwnedByHolder ==
    /\ [](\A r \in Requests :
            pc[r] \in {"create", "copy"} =>
               /\ acqBy[r] > relBy[r]
               /\ \A q \in Requests : pipe[q] \in {"none", "finished"})
    /\ [][\A f \in Filenames :
            uploadDir'[f] # uploadDir[f] =>
               \E r \in Requests :
                  /\ acqBy[r] > relBy[r]
                  /\ filePath[r] = f
                  /\ \/ pc[r] \in {"create", "copy"} /\ pc'[r] # pc[r]
                     \/ pipe[r] = "cleanup" /\ pipe'[r] = "returned"]_vars
    /\ [][\A r \in Requests :
            pipe[r] \in PipeRunning \ {"cleanup"} =>
               uploadDir'[filePath[r]] = uploadDir[filePath[r]]]_vars

C24_Witness ==
    \E r, q \in Requests :
        /\ pipe[r] = "build" /\ filePath[r] = "a.tar.gz"
        /\ uploadDir["a.tar.gz"] = "complete"
        /\ resp[q] = 503

====
